---- MODULE Spec2Model ----
(***************************************************************************)
(* Model of app/generator.py (locust-test-gen): extraction of operations   *)
(* from an OpenAPI document (parse_operations) and rendering of a          *)
(* locustfile (generate_locustfile).                                       *)
(*                                                                         *)
(* Encoding of Python values.  A Python str is a sequence of one-character *)
(* strings.  Every Python value is a record [t |-> type name, v |-> ...]:  *)
(*   None  [t |-> "NoneType", v |-> <<>>]                                  *)
(*   str   [t |-> "str",  v |-> sequence of characters]                    *)
(*   int   [t |-> "int",  v |-> integer]                                   *)
(*   bool  [t |-> "bool", v |-> TRUE or FALSE]                             *)
(*   list  [t |-> "list", v |-> sequence of values]                        *)
(*   dict  [t |-> "dict", v |-> sequence of <<key, value>> in insertion    *)
(*          order, keys being character sequences, no key twice]           *)
(* A call result is [exc |-> name of the exception raised, "" when the     *)
(* call returned, val |-> the value returned].                             *)
(***************************************************************************)
EXTENDS Integers, Sequences, FiniteSets, TLC

VARIABLES spec, operations, client_type, task_weight, output

vars == <<spec, operations, client_type, task_weight, output>>

-----------------------------------------------------------------------------
(* Bounds of the explored inputs *)

MaxMethods == 2
MaxParams == 2
MaxPathLen == 4
MaxIdLen == 3

-----------------------------------------------------------------------------
(* Python values *)

PyNone == [t |-> "NoneType", v |-> <<>>]
PyStr(s) == [t |-> "str", v |-> s]
PyInt(n) == [t |-> "int", v |-> n]
PyBool(b) == [t |-> "bool", v |-> b]
PyList(s) == [t |-> "list", v |-> s]
PyDict(items) == [t |-> "dict", v |-> items]

Ok(val) == [exc |-> "", val |-> val]
Raise(name) == [exc |-> name, val |-> PyNone]

\* bool(value)
Truthy(x) ==
    CASE x.t = "NoneType" -> FALSE
      [] x.t = "int" -> x.v /= 0
      [] x.t = "bool" -> x.v
      [] OTHER -> Len(x.v) > 0

\* a or b
Or(a, b) == IF Truthy(a) THEN a ELSE b

\* key in d, for a dict d
Has(d, key) == \E i \in 1..Len(d.v) : d.v[i][1] = key

\* d.get(key), for a dict d
Get(d, key) ==
    IF Has(d, key)
    THEN d.v[CHOOSE i \in 1..Len(d.v) : d.v[i][1] = key][2]
    ELSE PyNone

-----------------------------------------------------------------------------
(* Characters and the str methods the generator calls *)

LowerChars == <<"a","b","c","d","e","f","g","h","i","j","k","l","m",
                "n","o","p","q","r","s","t","u","v","w","x","y","z","é">>
UpperChars == <<"A","B","C","D","E","F","G","H","I","J","K","L","M",
                "N","O","P","Q","R","S","T","U","V","W","X","Y","Z","É">>
DigitChars == {"0","1","2","3","4","5","6","7","8","9"}

Range(s) == {s[i] : i \in 1..Len(s)}

\* ch.isalpha()
isalpha(ch) == ch \in Range(LowerChars) \cup Range(UpperChars)

\* ch.isdigit(): decimal digits and digit-like numbers such as "²"
isdigit(ch) == ch \in DigitChars \cup {"²"}

\* ch.isalnum(): alphabetic, decimal, digit or numeric ("½" is numeric only)
isalnum(ch) == isalpha(ch) \/ isdigit(ch) \/ ch = "½"

LowerCh(ch) ==
    IF ch \in Range(UpperChars)
    THEN LowerChars[CHOOSE i \in 1..Len(UpperChars) : UpperChars[i] = ch]
    ELSE ch

UpperCh(ch) ==
    IF ch \in Range(LowerChars)
    THEN UpperChars[CHOOSE i \in 1..Len(LowerChars) : LowerChars[i] = ch]
    ELSE ch

\* s.lower(), s.upper()
lower(s) == [i \in 1..Len(s) |-> LowerCh(s[i])]
upper(s) == [i \in 1..Len(s) |-> UpperCh(s[i])]

\* s.strip(ch)
RECURSIVE lstrip(_, _)
lstrip(s, ch) == IF s /= <<>> /\ Head(s) = ch THEN lstrip(Tail(s), ch) ELSE s

RECURSIVE rstrip(_, _)
rstrip(s, ch) ==
    IF s /= <<>> /\ s[Len(s)] = ch THEN rstrip(SubSeq(s, 1, Len(s) - 1), ch) ELSE s

strip(s, ch) == rstrip(lstrip(s, ch), ch)

\* s.replace(ch, new), ch one character
RECURSIVE replace(_, _, _)
replace(s, ch, new) ==
    IF s = <<>> THEN <<>>
    ELSE (IF Head(s) = ch THEN new ELSE <<Head(s)>>) \o replace(Tail(s), ch, new)

\* sep.join(parts)
RECURSIVE join(_, _)
join(sep, parts) ==
    IF parts = <<>> THEN <<>>
    ELSE IF Len(parts) = 1 THEN parts[1]
    ELSE parts[1] \o sep \o join(sep, Tail(parts))

\* str(n) for an int n
RECURSIVE IntToStr(_)
IntToStr(n) ==
    IF n < 0 THEN <<"-">> \o IntToStr(0 - n)
    ELSE LET d == <<"0","1","2","3","4","5","6","7","8","9">>[(n % 10) + 1]
         IN IF n < 10 THEN <<d>> ELSE IntToStr(n \div 10) \o <<d>>

\* repr(s) for a str s of printable characters: single quotes, or double
\* quotes when s has a single quote and no double quote
ReprStr(s) ==
    LET quote == IF "'" \in Range(s) /\ "\"" \notin Range(s) THEN "\"" ELSE "'"
        escaped == [i \in 1..Len(s) |->
                      IF s[i] = "\\" \/ s[i] = quote THEN <<"\\", s[i]>> ELSE <<s[i]>>]
    IN <<quote>> \o join(<<>>, escaped) \o <<quote>>

\* repr(value)
RECURSIVE Repr(_)
Repr(x) ==
    CASE x.t = "str" -> ReprStr(x.v)
      [] x.t = "NoneType" -> <<"N","o","n","e">>
      [] x.t = "int" -> IntToStr(x.v)
      [] x.t = "bool" -> IF x.v THEN <<"T","r","u","e">> ELSE <<"F","a","l","s","e">>
      [] x.t = "list" ->
            <<"[">> \o join(<<",", " ">>, [i \in 1..Len(x.v) |-> Repr(x.v[i])]) \o <<"]">>
      [] x.t = "dict" ->
            <<"{">> \o join(<<",", " ">>,
                           [i \in 1..Len(x.v) |->
                              ReprStr(x.v[i][1]) \o <<":", " ">> \o Repr(x.v[i][2])])
                   \o <<"}">>

\* the text an f-string or str.format embeds for value: str(value)
Format(x) == IF x.t = "str" THEN x.v ELSE Repr(x)

\* the items a for loop over value visits, or TypeError when value is not
\* iterable: the characters of a str, the items of a list, the keys of a dict
Iterate(x) ==
    CASE x.t = "str" -> Ok([i \in 1..Len(x.v) |-> PyStr(<<x.v[i]>>)])
      [] x.t = "list" -> Ok(x.v)
      [] x.t = "dict" -> Ok([i \in 1..Len(x.v) |-> PyStr(x.v[i][1])])
      [] OTHER -> Raise("TypeError")

\* s.isalnum() for a str s of any length
StrIsAlnum(s) == s /= <<>> /\ \A i \in 1..Len(s) : isalnum(s[i])

-----------------------------------------------------------------------------
(* String literals of generator.py *)

S_get == <<"g","e","t">>
S_post == <<"p","o","s","t">>
S_put == <<"p","u","t">>
S_patch == <<"p","a","t","c","h">>
S_delete == <<"d","e","l","e","t","e">>
S_options == <<"o","p","t","i","o","n","s">>
S_head == <<"h","e","a","d">>
S_operationId == <<"o","p","e","r","a","t","i","o","n","I","d">>
S_summary == <<"s","u","m","m","a","r","y">>
S_description == <<"d","e","s","c","r","i","p","t","i","o","n">>
S_requestBody == <<"r","e","q","u","e","s","t","B","o","d","y">>
S_parameters == <<"p","a","r","a","m","e","t","e","r","s">>
S_name == <<"n","a","m","e">>
S_in == <<"i","n">>
S_paths == <<"p","a","t","h","s">>
S_path == <<"p","a","t","h">>
S_query == <<"q","u","e","r","y">>
S_unknown == <<"u","n","k","n","o","w","n">>
S_root == <<"r","o","o","t">>
S_op_ == <<"o","p","_">>
S_unnamed_operation ==
    <<"u","n","n","a","m","e","d","_","o","p","e","r","a","t","i","o","n">>
S_FastHttpUser == <<"F","a","s","t","H","t","t","p","U","s","e","r">>
S_HttpUser == <<"H","t","t","p","U","s","e","r">>
S_GeneratedUser == <<"G","e","n","e","r","a","t","e","d","U","s","e","r">>

\* LocustClientType
FAST_HTTP == <<"f","a","s","t","_","h","t","t","p">>
REQUESTS == <<"r","e","q","u","e","s","t","s">>

\* the verb set of parse_operations
Verbs == {S_get, S_post, S_put, S_patch, S_delete, S_options, S_head}

-----------------------------------------------------------------------------
(* generator.py *)

\* class Operation
Operation(path, method, operation_id, summary, has_request_body, path_params, query_params) ==
    [path |-> path, method |-> method, operation_id |-> operation_id,
     summary |-> summary, has_request_body |-> has_request_body,
     path_params |-> path_params, query_params |-> query_params]

\* _derive_operation_id without the "root" default for an empty path part
derive_operation_id_without_root(operation, method, path) ==
    IF operation.t = "dict" /\ Has(operation, S_operationId)
    THEN Get(operation, S_operationId)
    ELSE LET stripped == strip(path, "/")
             sanitized_path ==
                 replace(replace(replace(stripped, "/", <<"_">>), "{", <<>>), "}", <<>>)
         IN PyStr(lower(method) \o <<"_">> \o sanitized_path)

_derive_operation_id(operation, method, path) ==
    IF operation.t = "dict" /\ Has(operation, S_operationId)
    THEN Get(operation, S_operationId)
    ELSE LET stripped == strip(path, "/")
             sanitized_path ==
                 replace(replace(replace(stripped, "/", <<"_">>), "{", <<>>), "}", <<>>)
             named == IF sanitized_path /= <<>> THEN sanitized_path ELSE S_root
         IN PyStr(lower(method) \o <<"_">> \o named)

\* one step of the loop of _collect_parameters: the pair yielded for param
ParamPair(param) ==
    <<Or(Get(param, S_name), PyStr(S_unknown)), Or(Get(param, S_in), PyStr(S_unknown))>>

\* the items a completed iteration of _collect_parameters(operation) yields,
\* or the exception the iteration raises
_collect_parameters(operation) ==
    LET parameters == Or(Get(operation, S_parameters), PyList(<<>>))
    IN CASE parameters.t = "list" ->
              IF \E i \in 1..Len(parameters.v) : parameters.v[i].t /= "dict"
              THEN Raise("AttributeError")
              ELSE Ok([i \in 1..Len(parameters.v) |-> ParamPair(parameters.v[i])])
         [] parameters.t \in {"dict", "str"} -> Raise("AttributeError")
         [] OTHER -> Raise("TypeError")

\* what a second iteration over the generator object yields once a first
\* iteration has run it to completion
Exhausted(items) == <<>>

\* [param[0] for param in params if param[1] == location]
RECURSIVE NamesAt(_, _)
NamesAt(items, location) ==
    IF items = <<>> THEN <<>>
    ELSE (IF Head(items)[2] = PyStr(location) THEN <<Head(items)[1]>> ELSE <<>>)
         \o NamesAt(Tail(items), location)

\* ParseOperation with has_request_body = bool(operation.get("requestBody"))
ParseOperation_truthy_request_body(raw_path, method, operation) ==
    LET op_id == _derive_operation_id(operation, method, raw_path)
    IN IF operation.t /= "dict" THEN Raise("AttributeError")
       ELSE LET summary == Or(Or(Get(operation, S_summary),
                                 Get(operation, S_description)), op_id)
                has_request_body == Truthy(Get(operation, S_requestBody))
                params == _collect_parameters(operation)
            IN IF params.exc /= "" THEN params
               ELSE Ok(Operation(PyStr(raw_path), PyStr(upper(method)), op_id,
                                 summary, has_request_body,
                                 NamesAt(params.val, S_path),
                                 NamesAt(Exhausted(params.val), S_query)))

\* the body of the inner loop of parse_operations for a kept method
ParseOperation(raw_path, method, operation) ==
    LET op_id == _derive_operation_id(operation, method, raw_path)
    IN IF operation.t /= "dict" THEN Raise("AttributeError")
       ELSE LET summary == Or(Or(Get(operation, S_summary),
                                 Get(operation, S_description)), op_id)
                has_request_body == Has(operation, S_requestBody)
                params == _collect_parameters(operation)
            IN IF params.exc /= "" THEN params
               ELSE Ok(Operation(PyStr(raw_path), PyStr(upper(method)), op_id,
                                 summary, has_request_body,
                                 NamesAt(params.val, S_path),
                                 NamesAt(Exhausted(params.val), S_query)))

\* for method, operation in methods.items(): ...
RECURSIVE ParseMethods(_, _, _)
ParseMethods(raw_path, items, acc) ==
    IF items = <<>> THEN Ok(acc)
    ELSE LET method == Head(items)[1]
             operation == Head(items)[2]
         IN IF lower(method) \notin Verbs
            THEN ParseMethods(raw_path, Tail(items), acc)
            ELSE LET op == ParseOperation(raw_path, method, operation)
                 IN IF op.exc /= "" THEN op
                    ELSE ParseMethods(raw_path, Tail(items), Append(acc, op.val))

\* for raw_path, methods in paths.items(): ...
RECURSIVE ParsePaths(_, _)
ParsePaths(items, acc) ==
    IF items = <<>> THEN Ok(acc)
    ELSE LET raw_path == Head(items)[1]
             methods == Head(items)[2]
         IN IF methods.t /= "dict" THEN ParsePaths(Tail(items), acc)
            ELSE LET r == ParseMethods(raw_path, methods.v, acc)
                 IN IF r.exc /= "" THEN r ELSE ParsePaths(Tail(items), r.val)

\* parse_operations leaving the loop (break) at a path whose value is no dict
RECURSIVE UntilNonDict(_)
UntilNonDict(items) ==
    IF items = <<>> \/ Head(items)[2].t /= "dict" THEN <<>>
    ELSE <<Head(items)>> \o UntilNonDict(Tail(items))

parse_operations_break_at_non_dict(doc) ==
    LET paths == IF Has(doc, S_paths) THEN Get(doc, S_paths) ELSE PyDict(<<>>)
    IN IF paths.t /= "dict" THEN Raise("AttributeError")
       ELSE ParsePaths(UntilNonDict(paths.v), <<>>)

parse_operations(doc) ==
    LET paths == IF Has(doc, S_paths) THEN Get(doc, S_paths) ELSE PyDict(<<>>)
    IN IF paths.t /= "dict" THEN Raise("AttributeError")
       ELSE ParsePaths(paths.v, <<>>)

\* _safe_method_name prefixing every non-empty name, digit-leading or not
safe_method_name_always_prefixed(operation_id) ==
    LET items == Iterate(operation_id)
    IN IF items.exc /= "" THEN items
       ELSE IF \E i \in 1..Len(items.val) : items.val[i].t /= "str"
       THEN Raise("AttributeError")
       ELSE LET cleaned == join(<<>>, [i \in 1..Len(items.val) |->
                              IF StrIsAlnum(items.val[i].v) \/ items.val[i].v = <<"_">>
                              THEN items.val[i].v ELSE <<"_">>])
                prefixed == IF cleaned /= <<>> THEN S_op_ \o cleaned ELSE cleaned
            IN Ok(PyStr(IF prefixed /= <<>> THEN prefixed ELSE S_unnamed_operation))

\* the call _safe_method_name(operation_id) for any value: the loop visits the
\* items of operation_id and calls ch.isalnum() on each, which a str has
_safe_method_name(operation_id) ==
    LET items == Iterate(operation_id)
    IN IF items.exc /= "" THEN items
       ELSE IF \E i \in 1..Len(items.val) : items.val[i].t /= "str"
       THEN Raise("AttributeError")
       ELSE LET cleaned == join(<<>>, [i \in 1..Len(items.val) |->
                              IF StrIsAlnum(items.val[i].v) \/ items.val[i].v = <<"_">>
                              THEN items.val[i].v ELSE <<"_">>])
                prefixed == IF cleaned /= <<>> /\ isdigit(cleaned[1])
                            THEN S_op_ \o cleaned ELSE cleaned
            IN Ok(PyStr(IF prefixed /= <<>> THEN prefixed ELSE S_unnamed_operation))

\* a line of the generated text: the format string and the values it embeds
Line(tpl, args) == [tpl |-> tpl, args |-> args]

\* ', '.join(names): TypeError unless every item is a str
JoinNames(names) ==
    IF \E i \in 1..Len(names) : names[i].t /= "str" THEN Raise("TypeError")
    ELSE Ok(join(<<",", " ">>, [i \in 1..Len(names) |-> names[i].v]))

_build_param_comments(operation) ==
    LET pathNames == JoinNames(operation.path_params)
        queryNames == JoinNames(operation.query_params)
    IN IF operation.path_params /= <<>> /\ pathNames.exc /= "" THEN pathNames
       ELSE IF operation.query_params /= <<>> /\ queryNames.exc /= "" THEN queryNames
       ELSE LET pathPart == IF operation.path_params /= <<>>
                            THEN << <<"p","a","t","h",":"," ">> \o pathNames.val >>
                            ELSE <<>>
                queryPart == IF operation.query_params /= <<>>
                             THEN << <<"q","u","e","r","y",":"," ">> \o queryNames.val >>
                             ELSE <<>>
            IN Ok(join(<<";", " ">>, pathPart \o queryPart))

_render_operation_task(operation, weight) ==
    LET method_name == _safe_method_name(operation.operation_id)
        param_comments == _build_param_comments(operation)
    IN IF method_name.exc /= "" THEN method_name
       ELSE IF param_comments.exc /= "" THEN param_comments
       ELSE
    LET head == << Line("    @task({})", <<IntToStr(weight)>>),
                   Line("    def {method_name}(self) -> None:", <<method_name.val.v>>),
                   Line("        \"\"\"{operation.summary}\"\"\"", <<Format(operation.summary)>>),
                   Line("        # TODO: Replace placeholder payloads with schema-aware data", <<>>) >>
        payload == IF operation.has_request_body
                   THEN << Line("        payload: Dict[str, Any] = {", <<>>),
                           Line("            # populate request body using the schema in the OpenAPI document", <<>>),
                           Line("        }", <<>>) >>
                   ELSE << Line("        payload = None", <<>>) >>
        params == IF param_comments.val /= <<>>
                  THEN << Line("        # Parameters: {param_comments}", <<param_comments.val>>) >>
                  ELSE <<>>
        request_name == Format(operation.method) \o <<" ">> \o Format(operation.path)
        request == << Line("        with self.client.request(", <<>>),
                      Line("            \"{operation.method}\",", <<Format(operation.method)>>),
                      Line("            \"{operation.path}\",", <<Format(operation.path)>>),
                      Line("            name=\"{request_name}\",", <<request_name>>),
                      Line("            json=payload,", <<>>),
                      Line("            params={},", <<>>),
                      Line("        ) as response:", <<>>),
                      Line("            response.raise_for_status()", <<>>),
                      Line("            # TODO: capture response data to chain into subsequent tasks", <<>>) >>
    IN Ok(head \o payload \o params \o request \o << Line("", <<>>) >>)

\* for op in operations: lines.extend(_render_operation_task(op, task_weight))
RECURSIVE RenderTasks(_, _, _)
RenderTasks(ops, weight, lines) ==
    IF ops = <<>> THEN Ok(lines)
    ELSE LET r == _render_operation_task(Head(ops), weight)
         IN IF r.exc /= "" THEN r
            ELSE RenderTasks(Tail(ops), weight, lines \o r.val)

\* the list `lines` that generate_locustfile joins with "\n"
generate_locustfile(doc, host, clientType, user_class_name, weight) ==
    LET parsed == parse_operations(doc)
        client_import == IF clientType = FAST_HTTP THEN S_FastHttpUser ELSE S_HttpUser
        header == << Line("from typing import Any, Dict", <<>>),
                     Line("", <<>>),
                     Line("from locust import HttpUser, FastHttpUser, between, task", <<>>),
                     Line("", <<>>),
                     Line("class {user_class_name}({client_import}):",
                          <<user_class_name, client_import>>),
                     Line("    \"\"\" Auto-generated skeleton tasks. ... \"\"\"", <<>>),
                     Line("    wait_time = between(1, 5)", <<>>),
                     Line("    host = \"{host}\"", <<host>>),
                     Line("", <<>>) >>
    IN IF parsed.exc /= "" THEN parsed
       ELSE LET body == RenderTasks(parsed.val, weight, header)
            IN IF body.exc /= "" THEN body
               ELSE IF parsed.val = <<>>
                    THEN Ok(Append(body.val,
                           Line("    # No operations were discovered in the provided OpenAPI document.", <<>>)))
                    ELSE body

-----------------------------------------------------------------------------
(* The documents and options explored *)

\* sequences over Alphabet of length at most n
SeqsUpTo(Alphabet, n) == UNION {[1..m -> Alphabet] : m \in 0..n}

\* dict items: at most n of the <<key, value>> entries, no key twice, in
\* every insertion order
ItemsUpTo(Entries, n) ==
    {s \in SeqsUpTo(Entries, n) :
        \A i, j \in 1..Len(s) : i < j => s[i][1] /= s[j][1]}

\* a dict built from optional fields: fields[i] = <<key, set of values>>, a
\* value of Absent leaves the key out
Absent == [t |-> "absent", v |-> <<>>]

RECURSIVE FieldItems(_)
FieldItems(fields) ==
    IF fields = <<>> THEN {<<>>}
    ELSE {(IF val = Absent THEN <<>> ELSE << <<Head(fields)[1], val>> >>) \o rest :
            val \in Head(fields)[2], rest \in FieldItems(Tail(fields))}

P_items == <<"/","i","t","e","m","s">>
P_item == <<"/","i","t","e","m","s","/","{","i","t","e","m","_","i","d","}">>
P_root == <<"/">>
S_listItems == <<"l","i","s","t","I","t","e","m","s">>
S_List_items == <<"L","i","s","t"," ","i","t","e","m","s">>
S_Create_item == <<"C","r","e","a","t","e"," ","i","t","e","m">>
S_item_id == <<"i","t","e","m","_","i","d">>
S_header == <<"h","e","a","d","e","r">>
S_POST == <<"P","O","S","T">>
S_trace == <<"t","r","a","c","e">>
Host == <<"h","t","t","p","s",":","/","/","a","p","i",".","e","x","a","m","p","l","e",".","c","o","m">>

\* the two operations of /items in the sample document of the tests
OpListItems ==
    PyDict(<< <<S_summary, PyStr(S_List_items)>>, <<S_operationId, PyStr(S_listItems)>> >>)
OpCreateItem ==
    PyDict(<< <<S_summary, PyStr(S_Create_item)>>, <<S_requestBody, PyDict(<<>>)>> >>)

DocOf(pathItems) == PyDict(<< <<S_paths, PyDict(pathItems)>> >>)

\* documents that vary the structure: which paths and methods, in which order
StructureDocs ==
    LET methodsDicts ==
            {PyDict(items) :
               items \in ItemsUpTo({<<S_get, OpListItems>>, <<S_POST, OpCreateItem>>,
                                    <<S_trace, OpListItems>>}, MaxMethods)}
    IN {DocOf(items) :
          items \in ItemsUpTo({P_items, P_root} \X (methodsDicts \cup {PyNone}), 2)}

\* documents that vary the fields of one operation, alone or after /items
FieldDocs ==
    LET ops == {PyDict(items) : items \in FieldItems(<<
                  <<S_operationId, {Absent, PyNone, PyStr(<<>>), PyStr(S_listItems),
                                    PyList(<<PyStr(<<"a">>), PyStr(<<"b">>)>>)}>>,
                  <<S_summary, {Absent, PyStr(<<>>), PyStr(S_List_items), PyInt(5)}>>,
                  <<S_description, {Absent, PyStr(<<"d">>)}>>,
                  <<S_requestBody, {Absent, PyNone, PyDict(<<>>)}>>,
                  <<S_parameters, {Absent, PyNone, PyInt(5), PyStr(<<"x">>),
                                   PyList(<< PyDict(<< <<S_name, PyStr(S_item_id)>>,
                                                       <<S_in, PyStr(S_path)>> >>) >>)}>> >>)}
    IN {DocOf(before \o << <<P_item, PyDict(<< <<S_get, op>> >>)>> >>) :
          op \in ops \cup {PyNone, PyStr(<<"x">>), PyList(<<>>)},
          before \in {<<>>, << <<P_items, PyDict(<< <<S_get, OpListItems>> >>)>> >>}}

\* documents that vary the parameter list of one operation
ParamDocs ==
    LET entries == {PyDict(items) : items \in FieldItems(<<
                      <<S_name, {Absent, PyStr(<<>>), PyStr(<<"a">>)}>>,
                      <<S_in, {Absent, PyStr(S_path), PyStr(S_query), PyStr(S_header)}>> >>)}
    IN {DocOf(<< <<P_item, PyDict(<< <<S_get,
                     PyDict(<< <<S_parameters, PyList(params)>> >>)>> >>)>> >>) :
          params \in SeqsUpTo(entries \cup {PyNone}, MaxParams)}

\* documents that vary the path and the method of an operation without id
PathDocs ==
    {DocOf(<< <<path, PyDict(<< <<S_POST, PyDict(<<>>)>> >>)>> >>) :
       path \in SeqsUpTo({"/", "{", "}", "a"}, MaxPathLen)}

\* documents that vary the operationId
IdDocs ==
    {DocOf(<< <<P_root, PyDict(<< <<S_get,
                  PyDict(<< <<S_operationId, PyStr(id)>> >>)>> >>)>> >>) :
       id \in SeqsUpTo({"a", "1", "_", "-", "é", "²", "½"}, MaxIdLen)}

Docs == StructureDocs \cup FieldDocs \cup ParamDocs \cup PathDocs \cup IdDocs
            \cup {PyDict(<<>>)}

\* client_type arguments: the two members of LocustClientType, a value that
\* is neither, and the argument left out
Omitted == <<"<omitted>">>
ClientTypes == {FAST_HTTP, REQUESTS, <<"h","t","t","p","x">>, Omitted}
TaskWeights == {1, 10}

\* the keyword arguments of the calls of generate_locustfile
Calls == (ClientTypes \X {1}) \cup {<<Omitted, 10>>}

-----------------------------------------------------------------------------
(* State machine: a document, and the calls made on it *)

\* the call has not been made
Pending == [exc |-> "pending", val |-> PyNone]

Init ==
    /\ spec \in Docs
    /\ operations = Pending
    /\ output = Pending
    /\ client_type = Omitted
    /\ task_weight = 1

\* operations = parse_operations(spec)
ParseOperations ==
    /\ operations.exc = "pending"
    /\ operations' = parse_operations(spec)
    /\ UNCHANGED <<spec, client_type, task_weight, output>>

\* output = generate_locustfile(spec, host=Host, client_type=ct, task_weight=w)
GenerateLocustfile ==
    /\ output.exc = "pending"
    /\ \E ct \in ClientTypes, w \in TaskWeights :
         /\ <<ct, w>> \in Calls
         /\ client_type' = ct
         /\ task_weight' = w
         /\ output' = generate_locustfile(spec, Host,
                          IF ct = Omitted THEN FAST_HTTP ELSE ct, S_GeneratedUser, w)
    /\ UNCHANGED <<spec, operations>>

Next == ParseOperations \/ GenerateLocustfile

Spec == Init /\ [][Next]_vars

-----------------------------------------------------------------------------
(* Vocabulary of the properties *)

Returned(result) == result.exc = ""
Raised(result) == result.exc \notin {"", "pending"}

UpperVerbs == {upper(verb) : verb \in Verbs}

PathItems(doc) == IF Has(doc, S_paths) THEN Get(doc, S_paths).v ELSE <<>>

\* positions <<i, j>> of the kept entries of a document: path i is a
\* mapping and the lower-cased key of its method j is a verb
KeptPositions(doc) ==
    LET items == PathItems(doc)
        mappings == {i \in 1..Len(items) : items[i][2].t = "dict"}
    IN UNION {{<<i, j>> : j \in {k \in 1..Len(items[i][2].v) :
                                   lower(items[i][2].v[k][1]) \in Verbs}} :
              i \in mappings}

Before(p, q) == p[1] < q[1] \/ (p[1] = q[1] /\ p[2] < q[2])

\* the kept entries in document order, each as [path, method, operation]
KeptPairs(doc) ==
    LET items == PathItems(doc)
        kept == KeptPositions(doc)
        at(n) == CHOOSE p \in kept : Cardinality({q \in kept : Before(q, p)}) = n - 1
    IN [n \in 1..Cardinality(kept) |->
          [path |-> items[at(n)[1]][1],
           method |-> items[at(n)[1]][2].v[at(n)[2]][1],
           operation |-> items[at(n)[1]][2].v[at(n)[2]][2]]]

\* the values embedded by the lines of the generated text that use format tpl
RECURSIVE ArgsOf(_, _)
ArgsOf(lines, tpl) ==
    IF lines = <<>> THEN <<>>
    ELSE (IF Head(lines).tpl = tpl THEN <<Head(lines).args>> ELSE <<>>)
         \o ArgsOf(Tail(lines), tpl)

DefNames(lines) ==
    LET defs == ArgsOf(lines, "    def {method_name}(self) -> None:")
    IN [i \in 1..Len(defs) |-> defs[i][1]]

\* per task, in order: TRUE for the dictionary placeholder, FALSE for None
RECURSIVE Payloads(_)
Payloads(lines) ==
    IF lines = <<>> THEN <<>>
    ELSE (CASE Head(lines).tpl = "        payload: Dict[str, Any] = {" -> <<TRUE>>
            [] Head(lines).tpl = "        payload = None" -> <<FALSE>>
            [] OTHER -> <<>>) \o Payloads(Tail(lines))

PlaceholderLine ==
    Line("    # No operations were discovered in the provided OpenAPI document.", <<>>)

ClassBase(lines) == ArgsOf(lines, "class {user_class_name}({client_import}):")[1][2]

-----------------------------------------------------------------------------
(* C1: parse_operations and generate_locustfile never raise for malformed  *)
(* per-operation data: on every document whose 'paths' is a mapping both   *)
(* calls return.                                                           *)
C1_NeverRaises == ~Raised(operations) /\ ~Raised(output)

(* C2: a document with a recognized-verb entry under a mapping path gives  *)
(* a non-empty descriptor sequence, and every returned descriptor's method *)
(* is one of the seven upper-case verbs.                                   *)
C2_RecognizedVerbsKept ==
    operations.exc /= "pending" =>
        /\ KeptPositions(spec) /= {} =>
              Returned(operations) /\ operations.val /= <<>>
        /\ Returned(operations) =>
              \A i \in 1..Len(operations.val) :
                  operations.val[i].method.v \in UpperVerbs

(* C3: every returned descriptor has a non-empty operation_id.             *)
C3_OperationIdNonEmpty ==
    Returned(operations) =>
        \A i \in 1..Len(operations.val) :
            /\ operations.val[i].operation_id.t = "str"
            /\ operations.val[i].operation_id.v /= <<>>

(* C4: the generated class inherits from HttpUser exactly when client_type *)
(* is 'requests'; every other value, and no value, gives FastHttpUser.     *)
C4_StandardBaseOnlyForRequests ==
    Returned(output) =>
        ClassBase(output.val) =
            (IF client_type = REQUESTS THEN S_HttpUser ELSE S_FastHttpUser)

\* a legal identifier: non-empty, letters, decimal digits and underscores
\* only, not starting with a digit
IsIdentifier(s) ==
    /\ s /= <<>>
    /\ \A i \in 1..Len(s) : isalpha(s[i]) \/ s[i] \in DigitChars \/ s[i] = "_"
    /\ s[1] \notin DigitChars

(* C5: every method name emitted in the generated text is a syntactically  *)
(* legal identifier.                                                       *)
C5_MethodNamesAreIdentifiers ==
    Returned(output) =>
        \A i \in 1..Len(DefNames(output.val)) : IsIdentifier(DefNames(output.val)[i])

\* the path between its first and its last character other than "/"
PathCore(path) ==
    LET inner == {i \in 1..Len(path) : path[i] /= "/"}
    IN IF inner = {} THEN <<>>
       ELSE SubSeq(path, CHOOSE i \in inner : \A k \in inner : i <= k,
                         CHOOSE i \in inner : \A k \in inner : k <= i)

NotBrace(ch) == ch \notin {"{", "}"}

\* <lower-cased method>_<path part>, the path part being the core of the
\* path without braces and with "_" for "/", or root when that is empty
SynthesizedId(method, path) ==
    LET kept == SelectSeq(PathCore(path), NotBrace)
        part == [i \in 1..Len(kept) |-> IF kept[i] = "/" THEN "_" ELSE kept[i]]
    IN lower(method) \o <<"_">> \o (IF part = <<>> THEN S_root ELSE part)

(* C6: a descriptor whose source operation has no explicit identifier has  *)
(* operation_id = lower-cased method, "_", and the path stripped of its    *)
(* leading and trailing "/", with "_" for inner "/" and without braces,    *)
(* or <method>_root when that path part is empty.                          *)
C6_SynthesizedOperationId ==
    Returned(operations) =>
        LET kept == KeptPairs(spec)
        IN \A i \in 1..Len(operations.val) :
              ~Has(kept[i].operation, S_operationId) =>
                  operations.val[i].operation_id =
                      PyStr(SynthesizedId(kept[i].method, kept[i].path))

C6_Witness ==
    /\ Returned(operations)
    /\ \E i \in 1..Len(operations.val) :
          /\ ~Has(KeptPairs(spec)[i].operation, S_operationId)
          /\ operations.val[i].path.v = P_item
          /\ operations.val[i].operation_id.v =
                <<"g","e","t","_","i","t","e","m","s","_","i","t","e","m","_","i","d">>

(* C7: the tasks of the generated text are, one for one and in document    *)
(* order, the kept (path, method) pairs; the placeholder comment is present *)
(* exactly when no pair is kept, and then there is no task.                *)
C7_TasksFollowDocumentOrder ==
    Returned(output) =>
        LET kept == KeptPairs(spec)
            lines == output.val
        IN /\ ArgsOf(lines, "            \"{operation.method}\",") =
                  [i \in 1..Len(kept) |-> <<upper(kept[i].method)>>]
           /\ ArgsOf(lines, "            \"{operation.path}\",") =
                  [i \in 1..Len(kept) |-> <<kept[i].path>>]
           /\ Len(DefNames(lines)) = Len(kept)
           /\ Len(ArgsOf(lines, "    @task({})")) = Len(kept)
           /\ (kept = <<>>) <=> (\E i \in 1..Len(lines) : lines[i] = PlaceholderLine)

C7_Witness ==
    /\ Returned(output)
    /\ Len(PathItems(spec)) = 2
    /\ Len(KeptPairs(spec)) = 3
    /\ \E i \in 1..2 : \E j \in 1..Len(PathItems(spec)[i][2].v) :
          <<i, j>> \notin KeptPositions(spec)
    /\ Len(DefNames(output.val)) = 3

\* the name the claim reads off a parameter entry and its location tag
ClaimedName(param) == IF Has(param, S_name) THEN Get(param, S_name) ELSE PyStr(S_unknown)

RECURSIVE ClaimedNamesAt(_, _)
ClaimedNamesAt(params, location) ==
    IF params = <<>> THEN <<>>
    ELSE (IF Has(Head(params), S_in) /\ Get(Head(params), S_in) = PyStr(location)
          THEN <<ClaimedName(Head(params))>> ELSE <<>>)
         \o ClaimedNamesAt(Tail(params), location)

SourceParams(operation) ==
    IF Has(operation, S_parameters) /\ Get(operation, S_parameters).t = "list"
    THEN Get(operation, S_parameters).v ELSE <<>>

(* C8: path_params is the subsequence of the parameter names tagged 'path' *)
(* and query_params the subsequence tagged 'query', in source order, a     *)
(* missing name read as 'unknown'.                                         *)
C8_ParametersBucketedByLocation ==
    Returned(operations) =>
        \A i \in 1..Len(operations.val) :
            LET params == SourceParams(KeptPairs(spec)[i].operation)
            IN /\ operations.val[i].path_params = ClaimedNamesAt(params, S_path)
               /\ operations.val[i].query_params = ClaimedNamesAt(params, S_query)

\* scenario A: GET /items with operationId listItems, POST /items with a
\* requestBody and no operationId
ScenarioA ==
    DocOf(<< <<P_items, PyDict(<< <<S_get, OpListItems>>, <<S_POST, OpCreateItem>> >>)>> >>)

(* C9: a generated task declares the dictionary placeholder payload iff    *)
(* its source operation has a 'requestBody' key, and 'payload = None'      *)
(* otherwise; scenario A gives listItems with None and post_items with the *)
(* dictionary.                                                             *)
C9_PayloadFollowsRequestBody ==
    Returned(output) =>
        /\ LET kept == KeptPairs(spec)
           IN Payloads(output.val) =
                 [i \in 1..Len(kept) |-> Has(kept[i].operation, S_requestBody)]
        /\ spec = ScenarioA =>
              /\ DefNames(output.val) =
                    <<S_listItems, <<"p","o","s","t","_","i","t","e","m","s">> >>
              /\ Payloads(output.val) = <<FALSE, TRUE>>

C9_Witness == Returned(output) /\ spec = ScenarioA

\* already sanitized: non-empty, alphanumerics and underscores only, not
\* starting with a digit
IsClean(s) ==
    /\ s /= <<>>
    /\ \A i \in 1..Len(s) : isalnum(s[i]) \/ s[i] = "_"
    /\ ~isdigit(s[1])

(* C10: sanitizing is idempotent: an already sanitized operation_id is     *)
(* emitted unchanged, and sanitizing any emitted method name returns it.   *)
C10_SanitizeIdempotent ==
    Returned(output) =>
        LET names == DefNames(output.val)
            kept == KeptPairs(spec)
        IN \A i \in 1..Len(names) :
            LET emitted == names[i]
                src == kept[i].operation
            IN /\ _safe_method_name(PyStr(emitted)) = Ok(PyStr(emitted))
               /\ (/\ Has(src, S_operationId)
                   /\ Get(src, S_operationId).t = "str"
                   /\ IsClean(Get(src, S_operationId).v))
                     => emitted = Get(src, S_operationId).v

C10_Witness ==
    /\ Returned(output)
    /\ Len(KeptPairs(spec)) = 1
    /\ Has(KeptPairs(spec)[1].operation, S_operationId)
    /\ Get(KeptPairs(spec)[1].operation, S_operationId) = PyStr(<<"1", "-", "a">>)
    /\ DefNames(output.val) = << <<"o","p","_","1","_","a">> >>

====
